---- MODULE Spec2Model ----
(***************************************************************************)
(* kryptografpersister: the HTTP handler of pkg/server (Start), the atomic *)
(* ingestion engine StoreJsonKV and the enumeration exporter, over an      *)
(* abstract anystore.AnyStore (HasKey / Store / Delete / Keys / Load and   *)
(* the mutually exclusive Run).                                            *)
(*                                                                         *)
(* Each concurrent request is served by one handler goroutine p \in Procs. *)
(* h[p] is that goroutine's frame: its position (pc) and the locals of the *)
(* handler and of StoreJsonKV.  h[p].body is the sequence of byte strings  *)
(* the handler has passed to w.Write, h[p].status the status line the      *)
(* ResponseWriter has committed to; delivery by the transport is outside   *)
(* the model.  The handlers interleave at every point where the code       *)
(* waits for, holds or has left the store: a request that has decoded its  *)
(* body waits for Run while another is inside it, and a handler whose Run  *)
(* has returned has not answered yet.  A frame at pc = "done" is the       *)
(* finished response, kept until the handler returns (Finish).             *)
(*                                                                         *)
(* life is the service lifecycle of Start: the supervisor goroutine, the   *)
(* serve goroutine, their channels and the caller.  Spec is the request    *)
(* handling of a running service; LifeSpec is the lifecycle, with the      *)
(* requests reduced to the number of handlers in service.                  *)
(***************************************************************************)
EXTENDS Integers, Sequences, FiniteSets, TLC

\* ---------------------------------------------------------------- bounds
MaxId == 3      \* distinct values RandomStamp can return
MaxObjs == 1    \* JSON objects in one request stream
MaxBatch == 2   \* key/value entries in one request stream
MaxActive == 1  \* requests in service when the lifecycle is looked at
MaxRetries == 2 \* regenerations of one record's id that are counted

\* ---------------------------------------------------- program constants
StatusOK == 200
StatusBadRequest == 400
StatusNotImplemented == 501
StatusInternalServerError == 500

\* The handler goroutines serving requests concurrently.
Procs == {1, 2}

\* The values RandomStamp (crand.Int63 behind a timestamp) can return.
RandomStamp == 1..MaxId

\* Logical keys a client may send; "SERVER_ERROR" is the reserved sentinel.
LogicalKeys == {"k", "SERVER_ERROR"}

\* A base64 payload on the wire, as its two leading sextets (the rest is
\* padding): <<16,16>> is "QQ==", <<16,17>> is "QR==", <<16,32>> is "Qg==".
WirePayloads == {<<16, 16>>, <<16, 17>>, <<16, 32>>}

\* encoding/json decodes a []byte with base64.StdEncoding (not strict: the
\* trailing bits of the last sextet are dropped).
B64Decode(w) == (w[1] * 4 + (w[2] \div 16)) % 256

\* An encoder that drops the bits of the second sextet.
B64EncodeTruncated(c) == <<c \div 4, 0>>

\* encoding/json marshals a []byte with base64.StdEncoding.
B64Encode(c) == <<c \div 4, (c % 4) * 16>>

\* type Data struct { Key string; Ciphertext []byte }
Data(k, c) == [type |-> "Data", Key |-> k, Ciphertext |-> c]

\* Any value in the persistence file that is not a server.Data.
Foreign == [type |-> "other"]

\* The payloads the clients send under each logical key: "QQ==" and "Qg=="
\* under "k", and "QR==" (the byte of "QQ==", not canonically encoded) under
\* the sentinel key.
WireFor(k) ==
    IF k = "SERVER_ERROR" THEN {<<16, 17>>} ELSE {<<16, 16>>, <<16, 32>>}

\* One JSON object of the stream: map[string][]byte.
Objects ==
    UNION {{o \in [S -> WirePayloads] : \A k \in S : o[k] \in WireFor(k)} :
           S \in SUBSET LogicalKeys}

\* How the stream ends: cleanly (io.EOF), with malformed input, or with a
\* read error (connection closed, read timeout).
Terms == {"EOF", "Malformed", "ReadErr"}

SeqsUpTo(S, n) == UNION {[1..m -> S] : m \in 0..n}

RECURSIVE EntryCount(_)
EntryCount(objs) ==
    IF objs = <<>> THEN 0
    ELSE Cardinality(DOMAIN Head(objs)) + EntryCount(Tail(objs))

\* Request bodies: objs decode successfully, then the stream ends as term.
Streams ==
    {s \in [objs : SeqsUpTo(Objects, MaxObjs), term : Terms] :
        EntryCount(s.objs) <= MaxBatch}

\* for key, value := range kv: a Go map is ranged in any order.
RECURSIVE RangeOrders(_)
RangeOrders(kv) ==
    IF DOMAIN kv = {} THEN {<<>>}
    ELSE UNION {{<<[Key |-> k, Wire |-> kv[k]]>> \o rest :
                    rest \in RangeOrders([x \in DOMAIN kv \ {k} |-> kv[x]])} :
                k \in DOMAIN kv}

\* The entries appended to transaction by the decode loop, in order.
RECURSIVE Flattenings(_)
Flattenings(objs) ==
    IF objs = <<>> THEN {<<>>}
    ELSE {a \o b : a \in RangeOrders(Head(objs)), b \in Flattenings(Tail(objs))}

\* A decode loop that stops at the first error and keeps what it has.
DecodeStreamPartial(s) ==
    {[err |-> "none", sent |-> f] : f \in Flattenings(s.objs)}

\* The decode loop of StoreJsonKV: every object decoded, io.EOF ends it,
\* any other error returns (nil, err).
DecodeStream(s) ==
    IF s.term = "EOF"
    THEN {[err |-> "none", sent |-> f] : f \in Flattenings(s.objs)}
    ELSE {[err |-> s.term, sent |-> <<>>]}

\* What StoreJsonKV's decode loop can make of the request bodies: how the
\* stream ended, how many entries were decoded before that, and the result.
Ingests ==
    UNION {{[term |-> s.term, decoded |-> EntryCount(s.objs),
             err |-> out.err, sent |-> out.sent] : out \in DecodeStream(s)} :
           s \in Streams}

\* transaction = append(transaction, Data{Key: key, Ciphertext: value})
ToTransaction(sent) ==
    [n \in 1..Len(sent) |-> Data(sent[n].Key, B64Decode(sent[n].Wire))]

VARIABLES
    store,   \* the AnyStore: a function from the ids present to their values
    batch,   \* history: batch[id] = the batch (one StoreJsonKV call) that
             \* stored id: its size and the ids it has stored
    wire,    \* history: wire[id] = the payload as it was submitted
    lock,    \* the goroutine inside AnyStore.Run, 0 when none
    h,       \* h[p]: the frame of handler goroutine p
    life     \* the service lifecycle: the two goroutines of Start, their
             \* channels, the http.Server, the caller of Start

vars == <<store, batch, wire, lock, h, life>>

\* The frame of a handler that serves no request.  rolledBack and kept are
\* history of the last failed store write, for the properties: the ids its
\* rollback deleted and the ids committed before its transaction began.
Idle ==
    [pc |-> "idle", verb |-> "", term |-> "", decoded |-> 0,
     sent |-> <<>>, transaction |-> <<>>, idx |-> 0, key |-> 0,
     collided |-> FALSE, retries |-> 0, keysToRollBack |-> <<>>,
     keys |-> <<>>, store0 |-> <<>>, status |-> 0, body |-> <<>>,
     err |-> "none", logged |-> <<>>, rolledBack |-> {}, kept |-> {}]


\* ------------------------------------------------------------- the store
\* A check that never finds the key.
HasKeyNever(s, k) == FALSE

\* s.HasKey(key)
HasKey(s, k) == k \in DOMAIN s

\* A store indexed by the logical key: a record with the same logical key
\* is replaced.
StoreKVByLogicalKey(s, k, v) ==
    IF \E x \in DOMAIN s : s[x].type = "Data" /\ s[x].Key = v.Key
    THEN LET x == CHOOSE y \in DOMAIN s : s[y].type = "Data" /\ s[y].Key = v.Key
         IN  (x :> v) @@ s
    ELSE (k :> v) @@ s

\* s.Store(key, value): a map assignment, replacing a value already there.
StoreKV(s, k, v) == (k :> v) @@ s

\* s.Delete(key)
DeleteKey(s, k) == [x \in DOMAIN s \ {k} |-> s[x]]

Perms(S) ==
    {f \in [1..Cardinality(S) -> S] : \A a, b \in DOMAIN f : f[a] = f[b] => a = b}

\* a.Run(f): f runs with the store locked, and Run returns what f returns
\* (anystore is a dependency: Run is taken as the mutual exclusion the
\* comment of StoreJsonKV relies on, with no error of its own).
RunLock(p) == lock = 0 /\ lock' = p

RunUnlock(p) == lock' = 0

\* -------------------------------------------------------- ResponseWriter
\* A WriteHeader whose last call wins.
WriteHeaderLast(f, code) == [f EXCEPT !.status = code]

\* w.WriteHeader(code): only the first call sets the status.
WriteHeader(f, code) ==
    IF f.status = 0 THEN [f EXCEPT !.status = code] ELSE f

\* w.Write(b): an implicit WriteHeader(200) when no header was sent yet.
Write(f, b) ==
    [(IF f.status = 0 THEN WriteHeader(f, StatusOK) ELSE f)
        EXCEPT !.body = Append(@, b)]

\* ToJson(&Msg{Msg: m}); m is the message as the sequence of its parts.
Msg(m) == [message |-> m]

\* logErr / logMsg
Log(f, m) == [f EXCEPT !.logged = Append(@, m)]

Restrict(f, S) == [x \in S |-> f[x]]

SeqRange(q) == {q[n] : n \in DOMAIN q}

TypeOK ==
    /\ DOMAIN store \subseteq RandomStamp
    /\ DOMAIN batch = DOMAIN store
    /\ DOMAIN wire \subseteq DOMAIN store
    /\ lock \in {0} \cup Procs
    /\ DOMAIN h = Procs

\* ------------------------------------------------------------- lifecycle
\* signal.Notify(signalChannel, syscall.SIGINT, syscall.SIGTERM)
Signals == {"interrupt", "terminated"}

\* fmt.Errorf("caught signal %q", sig.String())
SignalError(sig) ==
    IF sig = "interrupt" THEN "caught signal interrupt"
    ELSE "caught signal terminated"

\* The errors ListenAndServe returns other than http.ErrServerClosed.
ListenErrs == {"accept error"}

\* What srv.Shutdown(context.Background()) returns.
ShutdownResults == {"nil", "shutdown error"}

\* What anyStore.Close() returns.
CloseResults == {"nil", "close error"}

\* The variable err of Start when the goroutines run: net.Listen succeeded.
StartErr == "nil"

\* An error value as the chain of the errors it wraps; nil is the empty one.
ErrVal(x) == IF x = "nil" THEN <<>> ELSE <<x>>

\* A supervisor that always sends err.
SendValueErrOnly(e, err) == ErrVal(err)

\* The value the supervisor sends on returnCh, with err the variable err
\* that is in scope at the send.
SendValue(e, err) ==
    IF e = "nil" THEN ErrVal(err)
    ELSE IF err # "nil" THEN <<e, err>>
    ELSE <<e>>

\* Start has returned: both goroutines run, the caller holds the channels.
LifeStart ==
    [sup |-> "select", serve |-> "serving", caller |-> "waiting",
     notify |-> TRUE, sig |-> "", terminator |-> "open", las |-> "nil",
     reason |-> "", e |-> "nil", inShutdown |-> FALSE, accepting |-> TRUE,
     active |-> 0, shutdownErr |-> "nil", closed |-> FALSE,
     closeErr |-> "nil", returned |-> <<>>, returnCh |-> "open",
     ready |-> {}]

\* The persistence file is empty, or holds a value another program stored.
Init ==
    /\ store \in {<<>>, (1 :> Foreign)}
    /\ batch = [x \in DOMAIN store |-> [size |-> 1, written |-> {x}]]
    /\ wire = <<>>
    /\ lock = 0
    /\ h = [p \in Procs |-> Idle]
    /\ life = LifeStart

\* ------------------------------------------------------ the middleware
\* LoggingMiddleware: one log line per request, before the handler runs.
LoggingMiddleware(f) == Log(f, <<"request", f.verb>>)

\* Run returns: the locals of the closure are gone.
Leave(f) ==
    [f EXCEPT !.idx = 0, !.key = 0, !.collided = FALSE, !.retries = 0,
              !.keysToRollBack = <<>>, !.keys = <<>>, !.store0 = <<>>,
              !.sent = <<>>]

\* ------------------------------------------------------------------ PUT
\* The 400 answer of the PUT branch: logErr, WriteHeader, Write.
PutFailed(f, e) ==
    [Write(WriteHeader(Log([f EXCEPT !.err = e], <<e>>), StatusBadRequest),
           Msg(<<"Error: unable to store key-value pairs, all pairs in this transaction rolled back", e>>))
     EXCEPT !.pc = "done"]

\* case http.MethodPut: the decode loop of StoreJsonKV reads the whole
\* body.  On a decode error StoreJsonKV returns (nil, err); otherwise it
\* goes on to a.Run with its transaction.
PutDecode(p) ==
    /\ UNCHANGED life
    /\ h[p].pc = "idle"
    /\ \E out \in Ingests :
        LET f0 == LoggingMiddleware([Idle EXCEPT !.verb = "PUT",
                                                 !.term = out.term,
                                                 !.decoded = out.decoded])
        IN  h' = [h EXCEPT ![p] =
               IF out.err # "none"
               THEN [f0 EXCEPT !.pc = "put_failed", !.err = out.err]
               ELSE [f0 EXCEPT !.pc = "put_wait", !.sent = out.sent,
                               !.transaction = ToTransaction(out.sent)]]
    /\ UNCHANGED <<store, batch, wire, lock>>

\* a.Run(func...) is entered: the store is locked, keysToRollBack is empty.
PutRun(p) ==
    /\ UNCHANGED life
    /\ h[p].pc = "put_wait"
    /\ RunLock(p)
    /\ h' = [h EXCEPT ![p].pc = "put_loop", ![p].idx = 1, ![p].store0 = store]
    /\ UNCHANGED <<store, batch, wire>>

\* key := RandomStamp(); for { if s.HasKey(key) { key = RandomStamp() } else
\* { break } }: one generated key and its check.  A key that is present is
\* dropped and the next step generates another; retries counts these
\* regenerations while the loop runs, up to MaxRetries + 1.
PutGen(p) ==
    /\ UNCHANGED life
    /\ h[p].pc = "put_loop"
    /\ h[p].idx <= Len(h[p].transaction)
    /\ \E k \in RandomStamp :
        IF HasKey(store, k)
        THEN h' = [h EXCEPT ![p].collided = TRUE,
                            ![p].retries = IF @ <= MaxRetries THEN @ + 1 ELSE @]
        ELSE h' = [h EXCEPT ![p].key = k, ![p].retries = 0,
                            ![p].pc = "put_store"]
    /\ UNCHANGED <<store, batch, wire, lock>>

\* s.Store(key, transaction[i]) returns nil; keysToRollBack grows.
PutStoreOk(p) ==
    /\ UNCHANGED life
    /\ h[p].pc = "put_store"
    /\ LET k == h[p].key
           mine == SeqRange(h[p].keysToRollBack) \cup {k}
       IN  /\ store' = StoreKV(store, k, h[p].transaction[h[p].idx])
           /\ wire' = (k :> h[p].sent[h[p].idx].Wire) @@ wire
           /\ batch' = [x \in DOMAIN store \cup {k} |->
                          IF x \in mine
                          THEN [size |-> Len(h[p].transaction), written |-> mine]
                          ELSE batch[x]]
           /\ h' = [h EXCEPT ![p].keysToRollBack = Append(@, k),
                             ![p].idx = @ + 1,
                             ![p].collided = FALSE,
                             ![p].pc = "put_loop"]
    /\ UNCHANGED lock

RECURSIVE DeleteAll(_, _)
DeleteAll(s, ks) ==
    IF ks = {} THEN s
    ELSE LET k == CHOOSE x \in ks : TRUE IN DeleteAll(DeleteKey(s, k), ks \ {k})

\* A rollback that, when it has a key to delete, deletes every key of the
\* store, the records committed before the transaction began included.
RollBackWide(s, ks, failed) ==
    IF ks = <<>> THEN s ELSE DeleteAll(s, DOMAIN s \ failed)

\* for _, k := range keysToRollBack { s.Delete(k) }: the error of s.Delete is
\* dropped, so a delete that fails (k \in failed) leaves its key behind.
RollBack(s, ks, failed) == DeleteAll(s, SeqRange(ks) \ failed)

\* s.Store fails (its key stays absent): the rollback runs, the closure
\* returns the error, Run returns it and releases the store, StoreJsonKV
\* returns (nil, err).  History, kept in the frame: rolledBack, the ids the
\* rollback deleted, and kept, the ids of the records of batches stored in
\* full that were in the store when the transaction began.
PutStoreFail(p) ==
    /\ UNCHANGED life
    /\ h[p].pc = "put_store"
    /\ \E failed \in SUBSET SeqRange(h[p].keysToRollBack) :
        /\ store' = RollBack(store, h[p].keysToRollBack, failed)
        /\ batch' = Restrict(batch, DOMAIN store')
        /\ wire' = Restrict(wire, DOMAIN wire \cap DOMAIN store')
    /\ h' = [h EXCEPT ![p] =
           [Leave(@) EXCEPT
                !.pc = "put_failed", !.err = "store", !.transaction = <<>>,
                !.rolledBack = DOMAIN store \ DOMAIN store',
                !.kept = {x \in DOMAIN h[p].store0 :
                            /\ store[x].type = "Data"
                            /\ Cardinality(batch[x].written) = batch[x].size}]]
    /\ RunUnlock(p)

\* if d, err := StoreJsonKV(...); err != nil: the handler, outside Run,
\* answers 400 with the error of the decode loop or of Run.  The history
\* of the transaction ends with its answer.
PutAnswerFail(p) ==
    /\ UNCHANGED life
    /\ h[p].pc = "put_failed"
    /\ h' = [h EXCEPT ![p] =
           PutFailed([@ EXCEPT !.rolledBack = {}, !.kept = {}], h[p].err)]
    /\ UNCHANGED <<store, batch, wire, lock>>

\* The loop is over: the closure returns nil, Run returns nil and releases
\* the store, StoreJsonKV returns transaction.
PutCommit(p) ==
    /\ UNCHANGED life
    /\ h[p].pc = "put_loop"
    /\ h[p].idx > Len(h[p].transaction)
    /\ RunUnlock(p)
    /\ h' = [h EXCEPT ![p] = [Leave(@) EXCEPT !.pc = "put_ok"]]
    /\ UNCHANGED <<store, batch, wire>>

\* The count message the PUT branch logs.
CountMsg(n) ==
    IF n > 1 THEN <<"persisted", n, "key-value pairs">>
    ELSE IF n = 0 THEN <<"no key-value pairs persisted">>
    ELSE <<"persisted", n, "key-value pair">>

\* An answer that treats an empty batch as a failure.
PutAnswerStrict(p) ==
    /\ UNCHANGED life
    /\ h[p].pc = "put_ok"
    /\ h' = [h EXCEPT ![p] =
           IF Len(h[p].transaction) = 0
           THEN PutFailed(@, "empty")
           ELSE [Write(Log(@, CountMsg(Len(h[p].transaction))), Msg(<<"OK">>))
                 EXCEPT !.pc = "done"]]
    /\ UNCHANGED <<store, batch, wire, lock>>

\* length := len(d): the handler, outside Run, logs the count and writes
\* {"message": "OK"}.
PutAnswer(p) ==
    /\ UNCHANGED life
    /\ h[p].pc = "put_ok"
    /\ h' = [h EXCEPT ![p] =
           [Write(Log(@, CountMsg(Len(h[p].transaction))), Msg(<<"OK">>))
            EXCEPT !.pc = "done"]]
    /\ UNCHANGED <<store, batch, wire, lock>>

\* ------------------------------------------------------------------ GET
\* The sentinel the GET branch writes when Run returns an error.
Sentinel(e) == [Key |-> "SERVER_ERROR", ErrorBase64 |-> e]

\* Run returned err: logErr, WriteHeader(500), Write({"SERVER_ERROR": err}).
GetFailed(f, e) ==
    [Write(WriteHeader(Log([f EXCEPT !.err = e], <<e>>),
                       StatusInternalServerError),
           Sentinel(e))
     EXCEPT !.pc = "done"]

\* case http.MethodGet: w.WriteHeader(http.StatusOK), before Run.
GetBegin(p) ==
    /\ UNCHANGED life
    /\ h[p].pc = "idle"
    /\ h' = [h EXCEPT ![p] =
           [WriteHeader(LoggingMiddleware([Idle EXCEPT !.verb = "GET"]),
                        StatusOK)
            EXCEPT !.pc = "get_wait"]]
    /\ UNCHANGED <<store, batch, wire, lock>>

\* anyStore.Run(func...) is entered: the store is locked.
GetRun(p) ==
    /\ UNCHANGED life
    /\ h[p].pc = "get_wait"
    /\ RunLock(p)
    /\ h' = [h EXCEPT ![p].pc = "get_keys", ![p].store0 = store]
    /\ UNCHANGED <<store, batch, wire>>

\* keys, err := s.Keys(): the keys in any order, or an error, which the
\* closure returns; Run returns it and releases the store.
GetKeys(p) ==
    /\ UNCHANGED life
    /\ h[p].pc = "get_keys"
    /\ \/ /\ \E ks \in Perms(DOMAIN store) :
                h' = [h EXCEPT ![p].pc = "get_loop", ![p].keys = ks,
                               ![p].idx = 1]
          /\ UNCHANGED lock
       \/ /\ h' = [h EXCEPT ![p] =
                  [Leave(@) EXCEPT !.pc = "get_failed", !.err = "keys"]]
          /\ RunUnlock(p)
    /\ UNCHANGED <<store, batch, wire>>

\* A remap that lets every key through.
RemapNone(k) == k

\* if data.Key == "SERVER_ERROR" { data.Key = "server_error" }
Remap(k) == IF k = "SERVER_ERROR" THEN "server_error" ELSE k

\* json.Marshal(map[string][]byte{data.Key: data.Ciphertext}) + "\n"
Line(d) == [Key |-> Remap(d.Key), Value |-> B64Encode(d.Ciphertext)]

\* One iteration of for i := range keys, that succeeds.
GetStepOk(p) ==
    /\ UNCHANGED life
    /\ h[p].pc = "get_loop"
    /\ h[p].idx <= Len(h[p].keys)
    /\ h[p].keys[h[p].idx] \in DOMAIN store
    /\ store[h[p].keys[h[p].idx]].type = "Data"
    /\ h' = [h EXCEPT ![p] =
           [Write(@, Line(store[h[p].keys[h[p].idx]])) EXCEPT !.idx = @ + 1]]
    /\ UNCHANGED <<store, batch, wire, lock>>

\* One iteration that fails: s.Load returns an error, the value is no Data,
\* or w.Write returns an error; the closure returns it, Run returns it and
\* releases the store.
GetStepFail(p) ==
    /\ UNCHANGED life
    /\ h[p].pc = "get_loop"
    /\ h[p].idx <= Len(h[p].keys)
    /\ LET k == h[p].keys[h[p].idx]
       IN  \/ h' = [h EXCEPT ![p] =
                  [Leave(@) EXCEPT !.pc = "get_failed", !.err = "load"]]
           \/ /\ k \in DOMAIN store
              /\ store[k].type # "Data"
              /\ h' = [h EXCEPT ![p] =
                     [Leave(@) EXCEPT !.pc = "get_failed", !.err = "type"]]
           \/ /\ k \in DOMAIN store
              /\ store[k].type = "Data"
              /\ h' = [h EXCEPT ![p] =
                     [Leave(Write(@, Line(store[k])))
                      EXCEPT !.pc = "get_failed", !.err = "write"]]
    /\ RunUnlock(p)
    /\ UNCHANGED <<store, batch, wire>>

\* Run returned err: the handler, outside Run, logs it, calls
\* WriteHeader(500) and writes the sentinel.
GetAnswerFail(p) ==
    /\ UNCHANGED life
    /\ h[p].pc = "get_failed"
    /\ h' = [h EXCEPT ![p] = GetFailed(@, h[p].err)]
    /\ UNCHANGED <<store, batch, wire, lock>>

\* The loop is over: the closure returns nil, Run returns nil and releases
\* the store, and the handler returns.
GetReturn(p) ==
    /\ UNCHANGED life
    /\ h[p].pc = "get_loop"
    /\ h[p].idx > Len(h[p].keys)
    /\ RunUnlock(p)
    /\ h' = [h EXCEPT ![p] = [Leave(@) EXCEPT !.pc = "done"]]
    /\ UNCHANGED <<store, batch, wire>>

\* --------------------------------------------------------- other verbs
OtherVerbs == {"POST", "DELETE", "PATCH"}

\* A DELETE branch that empties the store.
RejectDeleting(p) ==
    /\ UNCHANGED life
    /\ h[p].pc = "idle"
    /\ \E v \in OtherVerbs :
        /\ h' = [h EXCEPT ![p] =
               [Write(WriteHeader(LoggingMiddleware([Idle EXCEPT !.verb = v]),
                                  StatusOK), Msg(<<"OK">>))
                EXCEPT !.pc = "done"]]
        /\ store' = IF v = "DELETE" THEN <<>> ELSE store
        /\ batch' = IF v = "DELETE" THEN <<>> ELSE batch
        /\ wire' = IF v = "DELETE" THEN <<>> ELSE wire
    /\ UNCHANGED lock

\* case http.MethodPost, http.MethodDelete: 501; default: 400.
Reject(p) ==
    /\ UNCHANGED life
    /\ h[p].pc = "idle"
    /\ \E v \in OtherVerbs :
        LET f0 == LoggingMiddleware([Idle EXCEPT !.verb = v])
        IN  h' = [h EXCEPT ![p] =
               IF v \in {"POST", "DELETE"}
               THEN [Write(WriteHeader(Log(f0, <<"method not implemented yet">>),
                                       StatusNotImplemented),
                           Msg(<<"Method not implemented yet.">>))
                     EXCEPT !.pc = "done"]
               ELSE [Write(WriteHeader(Log(f0, <<"bad request">>),
                                       StatusBadRequest),
                           Msg(<<StatusBadRequest, "Bad Request">>))
                     EXCEPT !.pc = "done"]]
    /\ UNCHANGED <<store, batch, wire, lock>>

\* A handler whose next request inherits the log of the last one.
FinishKeeping(p) ==
    /\ UNCHANGED life
    /\ h[p].pc = "done"
    /\ h' = [h EXCEPT ![p] = [Idle EXCEPT !.logged = h[p].logged]]
    /\ UNCHANGED <<store, batch, wire, lock>>

\* The response is complete: the handler returns and the goroutine is free
\* for the next request.
Finish(p) ==
    /\ UNCHANGED life
    /\ h[p].pc = "done"
    /\ h' = [h EXCEPT ![p] = Idle]
    /\ UNCHANGED <<store, batch, wire, lock>>

Next ==
    \E p \in Procs :
        \/ PutDecode(p)
        \/ PutRun(p)
        \/ PutGen(p)
        \/ PutStoreOk(p)
        \/ PutStoreFail(p)
        \/ PutAnswerFail(p)
        \/ PutCommit(p)
        \/ PutAnswer(p)
        \/ GetBegin(p)
        \/ GetRun(p)
        \/ GetKeys(p)
        \/ GetStepOk(p)
        \/ GetStepFail(p)
        \/ GetAnswerFail(p)
        \/ GetReturn(p)
        \/ Reject(p)
        \/ Finish(p)

Spec == Init /\ [][Next]_vars

\* ----------------------------------------------------- service lifecycle
\* The lifecycle is looked at with the requests reduced to their number:
\* life.active counts the handlers that have been accepted and not returned.
Requests == <<store, batch, wire, lock, h>>

\* The OS delivers SIGINT or SIGTERM: signal.Notify puts it in the buffer
\* of signalChannel (capacity 1) unless the buffer is full.
Signal ==
    /\ life.notify
    /\ life.sig = ""
    /\ \E s \in Signals : life' = [life EXCEPT !.sig = s]
    /\ UNCHANGED Requests

\* close(terminator), by whoever holds the channel Start returned: before
\* the receive on returnCh (the tests, the example of Start's comment) or
\* after it.
CloseTerminator ==
    /\ life.terminator = "open"
    /\ life' = [life EXCEPT !.terminator = "closed"]
    /\ UNCHANGED Requests

\* PlainStart and main return after the receive: their deferred
\* close(returnCh) and close(terminator) run.
PlainStartReturn ==
    /\ life.caller = "received"
    /\ life.returnCh = "open"
    /\ life.terminator = "open"
    /\ life' = [life EXCEPT !.caller = "returned", !.returnCh = "closed",
                            !.terminator = "closed"]
    /\ UNCHANGED Requests

\* srv.Serve accepts a connection and starts its handler.
Accept ==
    /\ life.accepting
    /\ life.active < MaxActive
    /\ life' = [life EXCEPT !.active = @ + 1]
    /\ UNCHANGED Requests

\* A handler returns and its connection goes idle.
HandlerReturn ==
    /\ life.active > 0
    /\ life' = [life EXCEPT !.active = @ - 1]
    /\ UNCHANGED Requests

\* ListenAndServe returns an error that is not http.ErrServerClosed; the
\* serve goroutine goes to listenAndServeCh <- err.
ListenerFail ==
    /\ life.serve = "serving"
    /\ ~life.inShutdown
    /\ \E err \in ListenErrs :
        life' = [life EXCEPT !.serve = "send", !.las = err, !.accepting = FALSE]
    /\ UNCHANGED Requests

\* ListenAndServe returns http.ErrServerClosed after Shutdown; the serve
\* goroutine goes to listenAndServeCh <- nil.
ServeClosed ==
    /\ life.serve = "serving"
    /\ life.inShutdown
    /\ life' = [life EXCEPT !.serve = "send", !.las = "nil"]
    /\ UNCHANGED Requests

\* The cases of the supervisor's select that can proceed (history: kept in
\* life.ready when the select chooses).
ReadyCases ==
    {c \in {"signal", "listener", "terminator"} :
        \/ c = "signal" /\ life.sig # ""
        \/ c = "listener" /\ life.serve = "send"
        \/ c = "terminator" /\ life.terminator = "closed"}

\* The select of the supervisor takes a case that is ready: a signal, a
\* value the serve goroutine is sending on the unbuffered listenAndServeCh
\* (the send completes and that goroutine goes on to its end), or the
\* closed terminator.
SupSelect ==
    /\ life.sup = "select"
    /\ \/ /\ life.sig # ""
          /\ life' = [life EXCEPT !.sup = "shutdown", !.reason = "signal",
                                  !.e = SignalError(life.sig), !.sig = "",
                                  !.ready = ReadyCases]
       \/ /\ life.serve = "send"
          /\ life' = [life EXCEPT !.sup = "shutdown", !.reason = "listener",
                                  !.e = life.las, !.serve = "exit",
                                  !.ready = ReadyCases]
       \/ /\ life.terminator = "closed"
          /\ life' = [life EXCEPT !.sup = "shutdown", !.reason = "terminator",
                                  !.ready = ReadyCases]
    /\ UNCHANGED Requests

\* A supervisor that goes on without shutting the server down.
SupShutdownSkipped ==
    /\ life.sup = "shutdown"
    /\ life' = [life EXCEPT !.sup = "draining", !.notify = FALSE]
    /\ UNCHANGED Requests

\* signal.Stop, close(signalChannel), and srv.Shutdown begins: the server
\* is marked as shutting down and its listeners are closed.
SupShutdownBegin ==
    /\ life.sup = "shutdown"
    /\ life' = [life EXCEPT !.sup = "draining", !.notify = FALSE,
                            !.inShutdown = TRUE, !.accepting = FALSE]
    /\ UNCHANGED Requests

\* srv.Shutdown returns once no connection is active; its error is logged.
SupShutdownEnd ==
    /\ life.sup = "draining"
    /\ life.active = 0
    /\ \E r \in ShutdownResults :
        life' = [life EXCEPT !.sup = "close", !.shutdownErr = r]
    /\ UNCHANGED Requests

\* anyStore.Close(); what it returns is dropped.
SupClose ==
    /\ life.sup = "close"
    /\ \E r \in CloseResults :
        life' = [life EXCEPT !.sup = "send", !.closed = TRUE, !.closeErr = r]
    /\ UNCHANGED Requests

\* returnCh <- ...: the send completes when the caller receives.  The err
\* of the sends is the variable err of Start: the err of the Shutdown call
\* is local to its if statement.
SupSend ==
    /\ life.sup = "send"
    /\ life.caller = "waiting"
    /\ life' = [life EXCEPT !.sup = "exit", !.caller = "received",
                            !.returned = SendValue(life.e, StartErr)]
    /\ UNCHANGED Requests

LifeNext ==
    \/ Signal
    \/ CloseTerminator
    \/ PlainStartReturn
    \/ Accept
    \/ HandlerReturn
    \/ ListenerFail
    \/ ServeClosed
    \/ SupSelect
    \/ SupShutdownBegin
    \/ SupShutdownEnd
    \/ SupClose
    \/ SupSend

LifeSpec == Init /\ [][LifeNext]_vars

\* A goroutine that can take a step takes it; signals, the closing of the
\* terminator, listener errors and new requests may never come.
LifeFairness ==
    /\ WF_vars(SupSelect)
    /\ WF_vars(SupShutdownBegin)
    /\ WF_vars(SupShutdownEnd)
    /\ WF_vars(SupClose)
    /\ WF_vars(SupSend)
    /\ WF_vars(ServeClosed)
    /\ WF_vars(HandlerReturn)

LifeFairSpec == LifeSpec /\ LifeFairness


\* ===================================================================
\* Properties
\* ===================================================================
PutDone(p) == h[p].verb = "PUT" /\ h[p].pc = "done"
GetDone(p) == h[p].verb = "GET" /\ h[p].pc = "done"
GetOk(p) == GetDone(p) /\ h[p].err = "none"

\* The step is one of handler p.
Moves(p) == h'[p] # h[p]

\* The step in which the Run of p's ingestion returns the error of a store
\* write, the one in which it returns nil, and the one in which the Run of
\* p's enumeration returns nil.
PutFails(p) == h[p].pc = "put_store" /\ h'[p].pc = "put_failed"
PutCommits(p) == h[p].pc = "put_loop" /\ h'[p].pc = "put_ok"
GetReturns(p) == h[p].pc = "get_loop" /\ h'[p].pc = "done"

\* The ids whose record line the enumeration of p, inside Run, has written.
Emitted(p) == {h[p].keys[n] : n \in 1..(h[p].idx - 1)}

\* The batch that stored x was stored in full.
Whole(x) == Cardinality(batch[x].written) = batch[x].size

\* The caller has received the outcome from returnCh.
Received == life.caller \in {"received", "returned"}

\* C1 (atomicity): when a store write of the transaction fails, StoreJsonKV
\* returns with the store equal to its contents before the transaction.
C1_Atomicity ==
    [][\A p \in Procs : PutFails(p) => store' = h[p].store0]_vars

\* C2: a stream that fails to decode (malformed input or a read error) is
\* answered with that error and status 400, without entering Run and with
\* no batch, whatever was decoded before the error; the steps that serve it
\* leave the store and its lock as they are.
C2_DecodeErrorNoTransaction ==
    /\ [](\A p \in Procs :
            (h[p].verb = "PUT" /\ h[p].term # "EOF") =>
                /\ h[p].pc \in {"put_failed", "done"}
                /\ h[p].err = h[p].term
                /\ h[p].pc = "done" => h[p].status = StatusBadRequest
                /\ h[p].transaction = <<>>
                /\ h[p].keysToRollBack = <<>>
                /\ lock # p)
    /\ [][\A p \in Procs :
            (h'[p].verb = "PUT" /\ h'[p].term # "EOF" /\ Moves(p)) =>
                /\ h[p].pc \in {"idle", "put_failed"}
                /\ store' = store
                /\ lock' = lock]_vars

\* C2 happens: a stream failed to decode after entries of it were decoded,
\* and was answered while another request was inside its transaction.
C2_Witness ==
    \E p \in Procs :
        /\ PutDone(p)
        /\ h[p].term \in {"Malformed", "ReadErr"}
        /\ h[p].decoded >= 1
        /\ lock \notin {0, p}
        /\ DOMAIN store # {}

\* C3: an enumeration emits, of every batch, all of its records or none:
\* every record it emits belongs to a batch stored in full, and an
\* enumeration that has gone through all keys has emitted all the records
\* of that batch.
C3_NoPartialBatch ==
    \A p \in Procs :
        h[p].pc = "get_loop" =>
            \A x \in Emitted(p) :
                /\ x \in DOMAIN batch
                /\ Whole(x)
                /\ h[p].idx > Len(h[p].keys) =>
                        batch[x].written \subseteq Emitted(p)

\* C4 (uniqueness): no store write targets an id that is present (a generated
\* id that is present is regenerated), so a record once written is never
\* overwritten, and it is removed only by the rollback of the transaction
\* that wrote it.
C4_NoOverwrite ==
    /\ [](\A p \in Procs : h[p].pc = "put_store" => ~HasKey(store, h[p].key))
    /\ [][\A x \in DOMAIN store :
            IF x \in DOMAIN store'
            THEN /\ store'[x] = store[x]
                 /\ x \in DOMAIN wire => (x \in DOMAIN wire' /\ wire'[x] = wire[x])
            ELSE \E p \in Procs : /\ h[p].pc = "put_store"
                                  /\ x \in SeqRange(h[p].keysToRollBack)]_vars

\* C4 happens: with a second batch waiting for the store, the generator
\* returned an id that an earlier batch had written, and the engine went on
\* to an id that is free.
C4_Witness ==
    \E p \in Procs :
        /\ h[p].pc = "put_store"
        /\ h[p].collided
        /\ \E x \in DOMAIN store : store[x].type = "Data" /\ x # h[p].key
        /\ \E q \in Procs : h[q].pc = "put_wait"

\* C5 as claimed: two writes with the same logical key leave two records,
\* and an enumeration returns both, each under that logical key with its
\* own payload.
C5_AppendSameKey ==
    [][\A p \in Procs :
        GetReturns(p) =>
            \A x, y \in DOMAIN store :
                (x # y /\ store[x].Key = store[y].Key /\ y \notin batch[x].written) =>
                    \E n, m \in DOMAIN h'[p].body :
                        /\ n # m
                        /\ h[p].keys[n] = x
                        /\ h[p].keys[m] = y
                        /\ h'[p].body[n] = [Key |-> store[x].Key,
                                            Value |-> B64Encode(store[x].Ciphertext)]
                        /\ h'[p].body[m] = [Key |-> store[y].Key,
                                            Value |-> B64Encode(store[y].Ciphertext)]]_vars

\* C5 (append, not overwrite), amended: a successful write stores each of
\* its records under an id of its own and leaves every record already in the
\* store as it was; two records with the same logical key are both returned
\* by an enumeration, each with its own payload, under that logical key, or
\* under server_error when the logical key is SERVER_ERROR.
C5_Append ==
    /\ [][\A p \in Procs :
            PutCommits(p) =>
                /\ Len(h[p].keysToRollBack) = Len(h[p].transaction)
                /\ \A n, m \in DOMAIN h[p].keysToRollBack :
                        h[p].keysToRollBack[n] = h[p].keysToRollBack[m] => n = m
                /\ \A n \in DOMAIN h[p].keysToRollBack :
                        /\ h[p].keysToRollBack[n] \in DOMAIN store'
                        /\ h[p].keysToRollBack[n] \notin DOMAIN h[p].store0
                        /\ store'[h[p].keysToRollBack[n]] = h[p].transaction[n]
                /\ \A x \in DOMAIN h[p].store0 :
                        x \in DOMAIN store' /\ store'[x] = h[p].store0[x]]_vars
    /\ [][\A p \in Procs :
            GetReturns(p) =>
                \A x, y \in DOMAIN store :
                    (x # y /\ store[x].Key = store[y].Key /\ y \notin batch[x].written) =>
                        \E n, m \in DOMAIN h'[p].body :
                            /\ n # m
                            /\ h[p].keys[n] = x
                            /\ h[p].keys[m] = y
                            /\ h'[p].body[n] = [Key |-> Remap(store[x].Key),
                                                Value |-> B64Encode(store[x].Ciphertext)]
                            /\ h'[p].body[m] = [Key |-> Remap(store[y].Key),
                                                Value |-> B64Encode(store[y].Ciphertext)]]_vars

\* C5 happens: an enumeration has returned two lines with the same key and
\* different payloads while the store holds two such records of two writes.
C5_Witness ==
    \E p \in Procs :
        /\ GetOk(p)
        /\ \E n, m \in DOMAIN h[p].body :
            /\ h[p].body[n].Key = h[p].body[m].Key
            /\ h[p].body[n].Value # h[p].body[m].Value
        /\ \E x, y \in DOMAIN store :
            /\ x # y
            /\ store[x].Key = store[y].Key
            /\ store[x].Ciphertext # store[y].Ciphertext
            /\ y \notin batch[x].written
            /\ Whole(x) /\ Whole(y)

\* C6 as claimed (enumeration completeness): after any successful and
\* failed writes, a GET whose transaction does not fail has status 200 and
\* exactly one line per committed record (a record of a batch stored in
\* full), the line of that record, and nothing else; on an empty store the
\* body is empty.
C6_EnumerationComplete ==
    [][\A p \in Procs :
        GetReturns(p) =>
            LET committed == {x \in DOMAIN store : Whole(x)}
            IN  /\ h'[p].err = "none"
                /\ h'[p].status = StatusOK
                /\ Len(h'[p].body) = Cardinality(committed)
                /\ \A n \in DOMAIN h'[p].body :
                        /\ h[p].keys[n] \in committed
                        /\ h'[p].body[n] = Line(store[h[p].keys[n]])
                /\ \A x \in committed :
                        \E n \in DOMAIN h'[p].body : h[p].keys[n] = x
                /\ DOMAIN store = {} => h'[p].body = <<>>]_vars

\* C7 as claimed: for every key and payload a successful write submitted, a
\* later enumeration has exactly one line with that key and the bytes of
\* that payload.
C7_RoundTripExactlyOne ==
    [][\A p \in Procs :
        GetReturns(p) =>
            \A x \in DOMAIN wire :
                Whole(x) =>
                    Cardinality({n \in DOMAIN h'[p].body :
                        /\ h'[p].body[n].Key = store[x].Key
                        /\ B64Decode(h'[p].body[n].Value) = B64Decode(wire[x])}) = 1]_vars

\* C7 (round trip), amended: for every key and payload a successful write
\* submitted, a later enumeration has a line of that record whose key is the
\* submitted key (server_error for SERVER_ERROR) and whose payload is the
\* canonical base64 text of the bytes the submitted payload decodes to;
\* there are as many such lines as records in the store with that key and
\* those bytes.
C7_RoundTrip ==
    [][\A p \in Procs :
        GetReturns(p) =>
            \A x \in DOMAIN wire :
                Whole(x) =>
                    LET same == {y \in DOMAIN store :
                                    /\ Remap(store[y].Key) = Remap(store[x].Key)
                                    /\ store[y].Ciphertext = B64Decode(wire[x])}
                        hits == {n \in DOMAIN h'[p].body :
                                    /\ h'[p].body[n].Key = Remap(store[x].Key)
                                    /\ B64Decode(h'[p].body[n].Value) = B64Decode(wire[x])}
                    IN  /\ x \in same
                        /\ Cardinality(hits) = Cardinality(same)
                        /\ \E n \in hits : h[p].keys[n] = x
                        /\ \A n \in hits : h'[p].body[n].Value[2] % 16 = 0]_vars

\* C7 happens: an enumeration has returned the canonical text of a payload
\* that a successful write submitted as text that is not canonical.
C7_Witness ==
    \E p \in Procs :
        /\ GetOk(p)
        /\ \E x \in DOMAIN wire :
            /\ Whole(x)
            /\ wire[x] # B64Encode(B64Decode(wire[x]))
            /\ \E n \in DOMAIN h[p].body :
                /\ h[p].body[n].Value = B64Encode(B64Decode(wire[x]))
                /\ h[p].body[n].Key = Remap(store[x].Key)

\* C8 (no-op success): a stream with no entries gives an empty batch and no
\* error and is answered 200 with {"message": "OK"}; no step of its request
\* changes the store.
C8_NoOp ==
    /\ [](\A p \in Procs :
            (h[p].verb = "PUT" /\ h[p].term = "EOF" /\ h[p].decoded = 0) =>
                /\ h[p].pc \in {"put_wait", "put_loop", "put_ok", "done"}
                /\ h[p].transaction = <<>>
                /\ h[p].keysToRollBack = <<>>
                /\ h[p].err = "none"
                /\ h[p].pc = "done" =>
                    /\ h[p].status = StatusOK
                    /\ h[p].body = <<Msg(<<"OK">>)>>)
    /\ [][\A p \in Procs :
            (/\ h'[p].verb = "PUT" /\ h'[p].term = "EOF" /\ h'[p].decoded = 0
             /\ Moves(p)) => store' = store]_vars

\* C8 happens: a stream with no entries has been answered while the store
\* holds records.
C8_Witness ==
    \E p \in Procs :
        /\ PutDone(p)
        /\ h[p].term = "EOF"
        /\ h[p].decoded = 0
        /\ h[p].status = StatusOK
        /\ DOMAIN store # {}

\* The lines the exporter can write for a record.
RecordLines ==
    {[Key |-> k, Value |-> B64Encode(B64Decode(w))] :
        k \in {"k", "server_error"}, w \in WirePayloads}

\* C9: a GET response has status 200 throughout; the lines written inside
\* the transaction are the lines of the records gone through, they stay as
\* written when the enumeration fails, and the failure appends the one
\* sentinel object carrying the error: the body is then k record lines and
\* the sentinel.
C9_Status200Sentinel ==
    /\ [](\A p \in Procs :
            h[p].verb = "GET" =>
                /\ h[p].status = StatusOK
                /\ h[p].pc = "get_loop" =>
                    /\ Len(h[p].body) = h[p].idx - 1
                    /\ \A n \in DOMAIN h[p].body :
                            h[p].body[n] = Line(store[h[p].keys[n]])
                /\ h[p].pc = "get_failed" =>
                    \A n \in DOMAIN h[p].body : h[p].body[n] \in RecordLines
                /\ (h[p].pc = "done" /\ h[p].err # "none") =>
                    /\ Len(h[p].body) >= 1
                    /\ h[p].body[Len(h[p].body)] = Sentinel(h[p].err)
                    /\ \A n \in 1..(Len(h[p].body) - 1) :
                            h[p].body[n] \in RecordLines)
    /\ [][\A p \in Procs :
            /\ (h[p].pc = "get_loop" /\ h'[p].pc = "get_failed") =>
                \/ h'[p].body = h[p].body
                \/ /\ h'[p].err = "write"
                   /\ h'[p].body =
                        Append(h[p].body, Line(store[h[p].keys[h[p].idx]]))
            /\ (h[p].pc = "get_failed" /\ h'[p].pc = "done") =>
                /\ h'[p].body = Append(h[p].body, Sentinel(h[p].err))
                /\ h'[p].err = h[p].err]_vars

\* C9 happens: an enumeration that failed after it had written a record
\* line has been answered.
C9_Witness ==
    \E p \in Procs :
        /\ GetDone(p)
        /\ h[p].err \in {"load", "type"}
        /\ Len(h[p].body) >= 2

\* C10 (sentinel safety): a GET response has an object keyed SERVER_ERROR if
\* and only if the enumeration failed; a record whose logical key is
\* SERVER_ERROR is written under the key server_error.
C10_SentinelSafety ==
    \A p \in Procs :
        h[p].verb = "GET" =>
            /\ h[p].pc = "get_loop" =>
                \A n \in 1..(h[p].idx - 1) :
                    /\ h[p].body[n].Key # "SERVER_ERROR"
                    /\ store[h[p].keys[n]].Key = "SERVER_ERROR" =>
                            h[p].body[n].Key = "server_error"
            /\ h[p].pc = "get_failed" =>
                \A n \in DOMAIN h[p].body : h[p].body[n].Key # "SERVER_ERROR"
            /\ h[p].pc = "done" =>
                ((\E n \in DOMAIN h[p].body : h[p].body[n].Key = "SERVER_ERROR")
                    <=> h[p].err # "none")

\* C10 happens: an enumeration that did not fail has written a record whose
\* logical key is SERVER_ERROR, under server_error.
C10_Witness ==
    \E p \in Procs :
        /\ GetOk(p)
        /\ \E n \in DOMAIN h[p].body : h[p].body[n].Key = "server_error"

\* C11 as claimed: a successful write of N pairs is answered 200 with a
\* response message that states the count.
C11_CountInResponse ==
    \A p \in Procs :
        (PutDone(p) /\ h[p].err = "none") =>
            /\ h[p].status = StatusOK
            /\ h[p].body = <<Msg(CountMsg(Len(h[p].transaction)))>>

\* C12 (dispatch): a request takes the one branch of its verb: PUT the
\* ingestion engine, GET the exporter, POST and DELETE the fixed 501 answer,
\* any other verb the fixed 400 answer; a handler that has returned keeps
\* nothing of the request it served.
C12_Dispatch ==
    \A p \in Procs :
        /\ h[p].pc = "idle" => h[p] = Idle
        /\ h[p].verb = "" <=> h[p].pc = "idle"
        /\ h[p].verb = "PUT" =>
            /\ h[p].pc \in {"put_wait", "put_loop", "put_store", "put_failed",
                            "put_ok", "done"}
            /\ h[p].keys = <<>>
            /\ h[p].status \in {0, StatusOK, StatusBadRequest}
        /\ h[p].verb = "GET" =>
            /\ h[p].pc \in {"get_wait", "get_keys", "get_loop", "get_failed",
                            "done"}
            /\ h[p].term = "" /\ h[p].transaction = <<>>
            /\ h[p].keysToRollBack = <<>>
            /\ h[p].status = StatusOK
        /\ h[p].verb \in {"POST", "DELETE"} =>
            /\ h[p].pc = "done"
            /\ h[p].status = StatusNotImplemented
            /\ h[p].body = <<Msg(<<"Method not implemented yet.">>)>>
            /\ h[p].transaction = <<>> /\ h[p].keys = <<>>
        /\ h[p].verb \notin {"", "PUT", "GET", "POST", "DELETE"} =>
            /\ h[p].pc = "done"
            /\ h[p].status = StatusBadRequest
            /\ h[p].body = <<Msg(<<StatusBadRequest, "Bad Request">>)>>
            /\ h[p].transaction = <<>> /\ h[p].keys = <<>>
        /\ h[p].pc # "idle" => h[p].logged[1] = <<"request", h[p].verb>>

\* C12 happens: a verb that has no branch of its own has been answered
\* while another request is inside an ingestion that has stored a record.
C12_Witness ==
    \E p, q \in Procs :
        /\ h[p].verb = "PATCH"
        /\ h[p].pc = "done"
        /\ lock = q
        /\ h[q].verb = "PUT"
        /\ h[q].keysToRollBack # <<>>

\* C15 as claimed: the retry loop of a record is capped: it regenerates
\* the id of a record at most a bounded number of times (here MaxRetries)
\* and then ends the ingestion with an error.
C15_RetryCapped ==
    \A p \in Procs : h[p].retries <= MaxRetries

\* C16 as claimed: when a store write of a transaction fails, the ids the
\* rollback removes are exactly the ids the transaction had written, every
\* record that was in the store when the transaction started is unchanged,
\* and the write error is returned.
C16_RollbackScope ==
    [][\A p \in Procs :
        PutFails(p) =>
            /\ DOMAIN store \ DOMAIN store' = SeqRange(h[p].keysToRollBack)
            /\ \A x \in DOMAIN h[p].store0 :
                    x \in DOMAIN store' /\ store'[x] = h[p].store0[x]
            /\ h'[p].err = "store"]_vars

\* C17 (record immutability): a record of a batch that was stored in full
\* stays in the store, under its id, with its key and payload, in every
\* step of every request; a record is removed only by the rollback of the
\* open transaction that wrote it.
C17_RecordImmutable ==
    [][\A x \in DOMAIN store :
        /\ Whole(x) => (x \in DOMAIN store' /\ store'[x] = store[x])
        /\ x \notin DOMAIN store' =>
            \E p \in Procs : /\ lock = p
                             /\ h[p].pc = "put_store"
                             /\ x \in SeqRange(h[p].keysToRollBack)
                             /\ x \notin DOMAIN h[p].store0]_vars

\* C17 happens: an ingestion that had written a record failed at a later
\* store write, its rollback has deleted that record, and a record committed
\* before that transaction began is in the store, of a batch stored in full.
C17_Witness ==
    \E p \in Procs :
        /\ h[p].pc = "put_failed"
        /\ h[p].err = "store"
        /\ h[p].rolledBack # {}
        /\ \E x \in h[p].kept :
            /\ x \in DOMAIN store
            /\ store[x].type = "Data"
            /\ Whole(x)

\* C20 (only PUT changes the store): no step of a GET, POST, DELETE or other
\* non-PUT request changes the store, whether the request succeeds or
\* fails; every step that changes the store is a step of a PUT inside its
\* transaction; and the store an enumeration goes through is the store its
\* transaction began with.
C20_OnlyPutChangesStore ==
    /\ [](\A p \in Procs :
            h[p].pc \in {"get_keys", "get_loop"} => store = h[p].store0)
    /\ [][\A p \in Procs :
            (/\ Moves(p)
             /\ \/ h[p].verb \notin {"", "PUT"}
                \/ h'[p].verb \notin {"", "PUT"}) => store' = store]_vars
    /\ [][store' # store =>
            \E p \in Procs : /\ h[p].verb = "PUT"
                             /\ h[p].pc = "put_store"
                             /\ lock = p
                             /\ Moves(p)]_vars

\* C20 happens: a GET that failed after it had written a record line has
\* been answered while the store holds records.
C20_Witness ==
    \E p \in Procs :
        /\ GetDone(p)
        /\ h[p].err # "none"
        /\ Len(h[p].body) >= 2
        /\ \E x \in DOMAIN store : store[x].type = "Data"

\* C13 (stop reason): the supervisor leaves its select on a signal, on a
\* listener error or on the closed terminator, and keeps that reason; the
\* stop then shuts the listener down and closes the store, and the caller
\* receives the value of that reason: the error naming the signal, the
\* listener error, or nil.
C13_StopReason ==
    /\ [](/\ life.sup = "select" => life.reason = ""
          /\ life.sup # "select" =>
                /\ life.reason \in {"signal", "listener", "terminator"}
                /\ life.reason \in life.ready
          /\ Received =>
                /\ life.inShutdown /\ ~life.accepting /\ life.closed
                /\ life.reason = "signal" =>
                    life.returned \in {<<SignalError(sg)>> : sg \in Signals}
                /\ life.reason = "listener" =>
                    life.returned \in {<<err>> : err \in ListenErrs}
                /\ life.reason = "terminator" => life.returned = <<>>)
    /\ [][life.reason # "" => life'.reason = life.reason]_vars

\* C13 happens: the caller has received the signal's error although the
\* terminator was closed as well when the supervisor chose.
C13_Witness ==
    /\ Received
    /\ life.reason = "signal"
    /\ "terminator" \in life.ready

\* C14 as claimed: the receive on the return channel completes only after
\* the stop, with nil on a clean stop via the terminator and with an error
\* whenever a listener, shutdown or store-close error occurred.
C14_TerminalOutcome ==
    Received =>
        /\ life.sup = "exit" /\ life.closed
        /\ (/\ life.reason = "terminator"
            /\ life.shutdownErr = "nil"
            /\ life.closeErr = "nil") => life.returned = <<>>
        /\ (\/ life.reason = "listener"
            \/ life.shutdownErr # "nil"
            \/ life.closeErr # "nil") => life.returned # <<>>

\* C18 (shutdown ordering): the store is closed only after the server was
\* shut down, when no listener accepts and no request is in service, and
\* the outcome is sent only after the store was closed.
C18_ShutdownOrder ==
    /\ life.sup \in {"select", "shutdown", "draining", "close"} =>
            ~life.closed /\ life.caller = "waiting"
    /\ life.sup = "close" => life.inShutdown /\ ~life.accepting
    /\ life.closed =>
            /\ life.inShutdown
            /\ ~life.accepting
            /\ life.active = 0
    /\ Received => life.closed /\ life.sup = "exit"

\* C18 happens: the caller has received the outcome of a stop in which
\* Shutdown returned an error.
C18_Witness ==
    /\ Received
    /\ life.closed
    /\ life.shutdownErr # "nil"

\* C19 as claimed: once the caller has received the outcome, the supervisor
\* and the serve goroutine both come to their end.
C19_NoGoroutineLeft ==
    Received ~> (life.sup = "exit" /\ life.serve = "exit")

====
